---- MODULE Spec2Model ----
(***************************************************************************)
(* Model of industrial-automation-sim: the control loop of main.py, the    *)
(* PID controller of src/pid_control.py and the sensor validator of        *)
(* src/sensor_validate.py.                                                 *)
(*                                                                         *)
(* Numbers.  Python floats are modelled as exact rationals <<n, d>> with   *)
(* d > 0 and gcd(n, d) = 1.  Times are in seconds (0.001 is <<1, 1000>>).  *)
(* An optional value (Python None) is the empty sequence, a present value  *)
(* v is <<v>>.                                                             *)
(***************************************************************************)
EXTENDS Integers, Sequences, FiniteSets, TLC

\* ---------------------------------------------------------------- bounds
\* cycles of the while loop a run may start
MaxCycles == 4
\* cycles a run may start in the specification with fairness
LiveCycles == 2
\* calls of compute on one controller in the component-level specification
MaxCalls == 2

\* ------------------------------------------------------------- rationals
Abs(n) == IF n < 0 THEN 0 - n ELSE n

RECURSIVE GCD(_, _)
GCD(a, b) == IF b = 0 THEN a ELSE GCD(b, a % b)

Rat(n, d) ==
    LET s == IF d < 0 THEN 0 - 1 ELSE 1
        g == GCD(Abs(n), Abs(d))
    IN  << (s * n) \div g, (s * d) \div g >>

I(n) == << n, 1 >>

Zero == I(0)

RatAdd(a, b) ==
    LET L == (a[2] \div GCD(a[2], b[2])) * b[2]
    IN  Rat(a[1] * (L \div a[2]) + b[1] * (L \div b[2]), L)

RatNeg(a) == << 0 - a[1], a[2] >>

RatSub(a, b) == RatAdd(a, RatNeg(b))

RatMul(a, b) ==
    LET g1 == GCD(Abs(a[1]), b[2])
        g2 == GCD(Abs(b[1]), a[2])
    IN  IF a[1] = 0 \/ b[1] = 0 THEN Zero
        ELSE Rat((a[1] \div g1) * (b[1] \div g2), (a[2] \div g2) * (b[2] \div g1))

\* a / b for b # 0
RatDiv(a, b) == RatMul(a, Rat(b[2], b[1]))

RatLt(a, b) == a[1] * b[2] < b[1] * a[2]

RatLe(a, b) == a[1] * b[2] <= b[1] * a[2]

\* Python max(a, b) and min(a, b): the first argument unless the second is
\* strictly larger (smaller)
PyMax(a, b) == IF RatLt(a, b) THEN b ELSE a

PyMin(a, b) == IF RatLt(b, a) THEN b ELSE a

\* Python int(round(x)): nearest integer, a tie goes to the even neighbour
PyRound(x) ==
    LET q == x[1] \div x[2]
        r == x[1] - q * x[2]
    IN  IF 2 * r < x[2] THEN q
        ELSE IF 2 * r > x[2] THEN q + 1
        ELSE IF q % 2 = 0 THEN q ELSE q + 1

\* ------------------------------------------------------------- optionals
None == << >>

Some(v) == << v >>

\* ------------------------------------------------- src/sensor_validate.py
\* a validator whose upper bound is exclusive
check_sensor_range_Exclusive(value, low, high) ==
    IF value = None THEN FALSE
    ELSE RatLe(low, value[1]) /\ RatLt(value[1], high)

check_sensor_range(value, low, high) ==
    IF value = None THEN FALSE
    ELSE RatLe(low, value[1]) /\ RatLe(value[1], high)

\* ---------------------------------------------------- src/pid_control.py
PIDController(kp, ki, kd, setpoint) ==
    [kp |-> kp, ki |-> ki, kd |-> kd, setpoint |-> setpoint,
     integral |-> Zero, last_error |-> Zero]

\* a compute that does not store the error it formed
compute_ForgetsError(self, measured_value, dt) ==
    LET error == RatSub(self.setpoint, measured_value)
        integral == RatAdd(self.integral, RatMul(error, dt))
        derivative == IF RatLt(Zero, dt)
                      THEN RatDiv(RatSub(error, self.last_error), dt)
                      ELSE Zero
        output == RatAdd(RatAdd(RatMul(self.kp, error),
                                RatMul(self.ki, integral)),
                         RatMul(self.kd, derivative))
    IN  [self |-> [self EXCEPT !.integral = integral],
         output |-> output]

\* a compute whose integral term uses the accumulator before this call's
\* error is added to it
compute_StaleIntegral(self, measured_value, dt) ==
    LET error == RatSub(self.setpoint, measured_value)
        integral == RatAdd(self.integral, RatMul(error, dt))
        derivative == IF RatLt(Zero, dt)
                      THEN RatDiv(RatSub(error, self.last_error), dt)
                      ELSE Zero
        output == RatAdd(RatAdd(RatMul(self.kp, error),
                                RatMul(self.ki, self.integral)),
                         RatMul(self.kd, derivative))
    IN  [self |-> [self EXCEPT !.integral = integral, !.last_error = error],
         output |-> output]

\* compute returns the updated controller and the output
compute(self, measured_value, dt) ==
    LET error == RatSub(self.setpoint, measured_value)
        integral == RatAdd(self.integral, RatMul(error, dt))
        derivative == IF RatLt(Zero, dt)
                      THEN RatDiv(RatSub(error, self.last_error), dt)
                      ELSE Zero
        output == RatAdd(RatAdd(RatMul(self.kp, error),
                                RatMul(self.ki, integral)),
                         RatMul(self.kd, derivative))
    IN  [self |-> [self EXCEPT !.integral = integral, !.last_error = error],
         output |-> output]

\* ------------------------------------------------------- main.py: inputs
\* nominal period of the loop in milliseconds (time.sleep(0.5))
TickMs == 500

\* readings time.time() may return: the wall clock is not monotonic, so a
\* reading may exceed, equal or precede the previous one
ClockReadings == { Zero, Rat(TickMs, 1000) }

\* contents of holding register 0 a successful read may deliver
RegValues == {45, 201}

\* outcomes of client.read_holding_registers: it raises, returns an empty
\* response, returns an error-flagged response, or returns the register
ReadResponses ==
    {[kind |-> k, reg |-> 0] : k \in {"raise", "empty", "error"}}
        \cup {[kind |-> "ok", reg |-> r] : r \in RegValues}

\* values an operator writes to the Setpoint tag
SPValues == {I(50), I(100)}

\* admissible sensor range and actuator limit of the reference deployment
LOW == 0

HIGH == 200

CV_MAX == 1000

\* dt floor, 1e-3 seconds
DT_MIN == Rat(1, 1000)

\* -------------------------------------------------------- main.py: state
VARIABLES
    pc,         \* position of main()
    opcua,      \* telemetry server: "down", "running", "stopped"
    client,     \* the Modbus client: "new", "connected", "closed"
    tags,       \* OPC UA tags PV, CV, SP, VALID
    hr1,        \* holding register 1 of the Modbus server (CV)
    pid,        \* the PIDController instance
    last_time, dt, sp_val, pv, valid, cv_scaled,   \* locals of main()
    cycle,      \* iterations of the while loop started
    pending,    \* exception in flight through the finally block
    obs,        \* observations of the current run, read by the properties
    limit,      \* cycles this run may start (MaxCycles or LiveCycles)
    ut          \* harness of the component-level specification

vars == << pc, opcua, client, tags, hr1, pid, last_time, dt, sp_val, pv,
           valid, cv_scaled, cycle, pending, obs, limit, ut >>

locals == << last_time, dt, sp_val, pv, valid, cv_scaled >>

\* positions inside the try block of main()
LoopPcs == {"top", "read_sp", "read_pv", "validate", "control", "write",
            "pub_pv", "pub_cv", "pub_valid", "sleep"}

\* the controller main() constructs: kp=1.0, ki=0.2, kd=0.05, setpoint=50.0
FreshPid == PIDController(I(1), Rat(1, 5), Rat(1, 20), I(50))

\* obs records what the current cycle has done so far (reset by Top) and
\* what the run has done:
\*   reads, writes   calls of read_holding_registers / write_register
\*   wrote           the value passed to write_register
\*   readFailed      the read of this cycle failed; delivered: its register
\*   validated, computed   Validate / pid.compute ran in this cycle
\*   writeFailed     write_register raised in this cycle
\*   pubPV, pubCV, pubVALID   the tag was published in this cycle
\*   unpublished     hr1 was written in this cycle, the CV tag not yet
\*   pidBefore       the controller when this cycle began
\*   skipBase        the controller when the previous cycle began, kept
\*                   when the previous cycle did not call compute
\*   prevReadFailed  the read of the previous cycle failed
\*   nValid          cycles validated true so far
\*   cancelled, cancelPc   Ctrl+C was received, and where
\*   closeAttempted, stopAttempted   client.close() / opcua_server.stop()
\*                   was called
\*   clock, prevClock   the last two values time.time() returned
\*   cv              the value pid.compute returned in this cycle
ObsInit ==
    [reads |-> 0, writes |-> 0, wrote |-> None, readFailed |-> FALSE,
     validated |-> FALSE, computed |-> FALSE, writeFailed |-> FALSE,
     pubPV |-> FALSE, pubCV |-> FALSE, pubVALID |-> FALSE,
     unpublished |-> FALSE, pidBefore |-> FreshPid, skipBase |-> None,
     delivered |-> None,
     prevReadFailed |-> FALSE, nValid |-> 0,
     cancelled |-> FALSE, cancelPc |-> "",
     closeAttempted |-> FALSE, stopAttempted |-> FALSE,
     clock |-> None, prevClock |-> None, cv |-> None]

UtIdle ==
    [op |-> "idle", pids |-> << >>, mv |-> Zero, dt |-> Zero, value |-> None,
     low |-> Zero, high |-> Zero, outs |-> << >>]

MainInit ==
    /\ pc = "start"
    /\ opcua = "down"
    /\ client = "new"
    /\ tags = [PV |-> I(25), CV |-> Zero, SP |-> I(50), VALID |-> TRUE]
    /\ hr1 = 25
    /\ pid = FreshPid
    /\ last_time = None
    /\ dt = None
    /\ sp_val = None
    /\ pv = None
    /\ valid = FALSE
    /\ cv_scaled = 0
    /\ cycle = 0
    /\ pending = "none"
    /\ obs = ObsInit

Init == MainInit /\ limit = MaxCycles /\ ut = UtIdle

LiveInit == MainInit /\ limit = LiveCycles /\ ut = UtIdle

\* ------------------------------------------------------ main.py: startup
\* _start_opcua_server(): the server starts, or server.start() raises
StartOpcua ==
    /\ pc = "start"
    /\ \/ /\ opcua' = "running"
          /\ pc' = "connect"
       \/ /\ pc' = "raised"
          /\ UNCHANGED opcua
    /\ UNCHANGED << client, tags, hr1, pid, locals, cycle, pending, obs, limit, ut >>

\* client.connect() succeeds
ConnectOk ==
    /\ pc = "connect"
    /\ client' = "connected"
    /\ pc' = "init"
    /\ UNCHANGED << opcua, tags, hr1, pid, locals, cycle, pending, obs, limit, ut >>

\* a failed connect that returns without stopping the telemetry server
ConnectFail_NoStop ==
    /\ pc = "connect"
    /\ pc' = "returned"
    /\ UNCHANGED << opcua, client, tags, hr1, pid, locals, cycle, pending,
                    obs, limit, ut >>

\* client.connect() returns false: stop the telemetry server and return; the
\* stop is not guarded, so an exception of stop() leaves main
ConnectFail ==
    /\ pc = "connect"
    /\ obs' = [obs EXCEPT !.stopAttempted = TRUE]
    /\ \/ /\ opcua' = "stopped"
          /\ pc' = "returned"
       \/ /\ pc' = "raised"
          /\ UNCHANGED opcua
    /\ UNCHANGED << client, tags, hr1, pid, locals, cycle, pending, limit, ut >>

\* pid = PIDController(1.0, 0.2, 0.05, 50.0); last_time = time.time()
InitPid ==
    /\ pc = "init"
    /\ pid' = FreshPid
    /\ \E now \in ClockReadings :
          /\ last_time' = now
          /\ obs' = [obs EXCEPT !.clock = Some(now)]
    /\ pc' = "top"
    /\ UNCHANGED << opcua, client, tags, hr1, dt, sp_val, pv, valid,
                    cv_scaled, cycle, pending, limit, ut >>

\* --------------------------------------------------- main.py: one cycle
\* an exception that leaves main at once, without the finally block
Escapes_SkipsCleanup ==
    /\ pc' = "raised"
    /\ pending' = "exception"

\* an exception other than KeyboardInterrupt leaves the try block: the
\* finally block runs and the exception propagates out of main
Escapes ==
    /\ pc' = "close"
    /\ pending' = "exception"

\* the observations as a cycle begins with the clock reading now
CycleObs(now) ==
    [obs EXCEPT !.reads = 0, !.writes = 0, !.wrote = None,
                !.readFailed = FALSE, !.validated = FALSE,
                !.computed = FALSE, !.writeFailed = FALSE,
                !.pubPV = FALSE, !.pubCV = FALSE,
                !.pubVALID = FALSE, !.unpublished = FALSE,
                !.pidBefore = pid, !.delivered = None,
                !.skipBase = IF cycle > 0 /\ ~obs.computed
                             THEN Some(obs.pidBefore) ELSE None,
                !.prevReadFailed = obs.readFailed,
                !.clock = Some(now), !.prevClock = obs.clock,
                !.cv = None]

\* a cycle start that advances last_time only after a cycle that called
\* compute, so that dt spans the cycles that skipped it
Top_HoldsTimeWhenInvalid ==
    /\ pc = "top"
    /\ cycle < limit
    /\ \E now \in ClockReadings :
          /\ dt' = PyMax(DT_MIN, RatSub(now, last_time))
          /\ last_time' = IF cycle = 0 \/ obs.computed THEN now ELSE last_time
          /\ obs' = CycleObs(now)
    /\ cycle' = cycle + 1
    /\ pc' = "read_sp"
    /\ UNCHANGED << opcua, client, tags, hr1, pid, sp_val, pv, valid,
                    cv_scaled, pending, limit, ut >>

\* a cycle start that takes dt = now - last_time without the floor
Top_NoFloor ==
    /\ pc = "top"
    /\ cycle < limit
    /\ \E now \in ClockReadings :
          /\ dt' = RatSub(now, last_time)
          /\ last_time' = now
          /\ obs' = CycleObs(now)
    /\ cycle' = cycle + 1
    /\ pc' = "read_sp"
    /\ UNCHANGED << opcua, client, tags, hr1, pid, sp_val, pv, valid,
                    cv_scaled, pending, limit, ut >>

\* now = time.time(); dt = max(1e-3, now - last_time); last_time = now
Top ==
    /\ pc = "top"
    /\ cycle < limit
    /\ \E now \in ClockReadings :
          /\ dt' = PyMax(DT_MIN, RatSub(now, last_time))
          /\ last_time' = now
          /\ obs' = CycleObs(now)
    /\ cycle' = cycle + 1
    /\ pc' = "read_sp"
    /\ UNCHANGED << opcua, client, tags, hr1, pid, sp_val, pv, valid,
                    cv_scaled, pending, limit, ut >>

\* a setpoint assignment that takes effect one cycle late: the controller
\* gets the value read in the previous cycle
ReadSP_OneCycleLate ==
    /\ pc = "read_sp"
    /\ \/ /\ sp_val' = tags.SP
          /\ pid' = [pid EXCEPT !.setpoint = IF sp_val = None THEN tags.SP
                                             ELSE sp_val]
          /\ pc' = "read_pv"
          /\ UNCHANGED pending
       \/ /\ Escapes
          /\ UNCHANGED << sp_val, pid >>
    /\ UNCHANGED << opcua, client, tags, hr1, last_time, dt, pv, valid,
                    cv_scaled, cycle, obs, limit, ut >>

\* a setpoint assignment that clears the controller's memory when the
\* setpoint changes
ReadSP_ResetsMemory ==
    /\ pc = "read_sp"
    /\ \/ /\ sp_val' = tags.SP
          /\ pid' = IF tags.SP = pid.setpoint THEN pid
                    ELSE [pid EXCEPT !.setpoint = tags.SP, !.integral = Zero,
                                     !.last_error = Zero]
          /\ pc' = "read_pv"
          /\ UNCHANGED pending
       \/ /\ Escapes
          /\ UNCHANGED << sp_val, pid >>
    /\ UNCHANGED << opcua, client, tags, hr1, last_time, dt, pv, valid,
                    cv_scaled, cycle, obs, limit, ut >>

\* sp_val = float(tags["SP"].get_value()); pid.setpoint = sp_val
ReadSP ==
    /\ pc = "read_sp"
    /\ \/ /\ sp_val' = tags.SP
          /\ pid' = [pid EXCEPT !.setpoint = tags.SP]
          /\ pc' = "read_pv"
          /\ UNCHANGED pending
       \/ /\ Escapes
          /\ UNCHANGED << sp_val, pid >>
    /\ UNCHANGED << opcua, client, tags, hr1, last_time, dt, pv, valid,
                    cv_scaled, cycle, obs, limit, ut >>

\* a read whose failure leaves pv with the value of the previous cycle
ReadPV_Stale ==
    /\ pc = "read_pv"
    /\ \E rr \in ReadResponses :
          /\ pv' = IF rr.kind = "ok" THEN Some(I(rr.reg)) ELSE pv
          /\ obs' = [obs EXCEPT !.reads = @ + 1,
                                !.readFailed = (rr.kind # "ok"),
                                !.delivered = IF rr.kind = "ok"
                                              THEN Some(rr.reg) ELSE None]
    /\ pc' = "validate"
    /\ UNCHANGED << opcua, client, tags, hr1, pid, last_time, dt, sp_val,
                    valid, cv_scaled, cycle, pending, limit, ut >>

\* rr = client.read_holding_registers(0, 1); a failure is caught: pv = None
ReadPV ==
    /\ pc = "read_pv"
    /\ \E rr \in ReadResponses :
          /\ pv' = IF rr.kind = "ok" THEN Some(I(rr.reg)) ELSE None
          /\ obs' = [obs EXCEPT !.reads = @ + 1,
                                !.readFailed = (rr.kind # "ok"),
                                !.delivered = IF rr.kind = "ok"
                                              THEN Some(rr.reg) ELSE None]
    /\ pc' = "validate"
    /\ UNCHANGED << opcua, client, tags, hr1, pid, last_time, dt, sp_val,
                    valid, cv_scaled, cycle, pending, limit, ut >>

\* valid = check_sensor_range(pv, low=0, high=200) if pv is not None else False
Validate ==
    /\ pc = "validate"
    /\ valid' = IF pv # None THEN check_sensor_range(pv, I(LOW), I(HIGH))
                ELSE FALSE
    /\ obs' = [obs EXCEPT !.validated = TRUE,
                          !.nValid = IF valid' THEN @ + 1 ELSE @]
    /\ pc' = "control"
    /\ UNCHANGED << opcua, client, tags, hr1, pid, last_time, dt, sp_val, pv,
                    cv_scaled, cycle, pending, limit, ut >>

\* the scaling with int() alone: truncation toward zero, no rounding
Scale_Truncate(cv) ==
    LET c == PyMax(I(0 - CV_MAX), PyMin(I(CV_MAX), cv))
    IN  IF c[1] >= 0 THEN c[1] \div c[2] ELSE 0 - ((0 - c[1]) \div c[2])

\* the scaling without the clamp
Scale_NoClamp(cv) == PyRound(cv)

\* cv_scaled = int(round(max(-1000.0, min(1000.0, cv))))
Scale(cv) == PyRound(PyMax(I(0 - CV_MAX), PyMin(I(CV_MAX), cv)))

\* if valid: cv = pid.compute(measured_value=pv, dt=dt); clamp; round
Compute ==
    /\ pc = "control"
    /\ valid
    /\ LET r == compute(pid, pv[1], dt)
       IN  /\ pid' = r.self
           /\ cv_scaled' = Scale(r.output)
    /\ obs' = [obs EXCEPT !.computed = TRUE,
                          !.cv = Some(compute(pid, pv[1], dt).output)]
    /\ pc' = "write"
    /\ UNCHANGED << opcua, client, tags, hr1, last_time, dt, sp_val, pv,
                    valid, cycle, pending, limit, ut >>

\* a fail-safe branch that also clears the controller's memory
FailSafe_ResetsPid ==
    /\ pc = "control"
    /\ ~valid
    /\ cv_scaled' = 0
    /\ pid' = [pid EXCEPT !.integral = Zero, !.last_error = Zero]
    /\ pc' = "write"
    /\ UNCHANGED << opcua, client, tags, hr1, last_time, dt, sp_val, pv,
                    valid, cycle, pending, obs, limit, ut >>

\* else: cv_scaled = 0
FailSafe ==
    /\ pc = "control"
    /\ ~valid
    /\ cv_scaled' = 0
    /\ pc' = "write"
    /\ UNCHANGED << opcua, client, tags, hr1, pid, last_time, dt, sp_val, pv,
                    valid, cycle, pending, obs, limit, ut >>

\* a write whose exception is not caught
Write_FailFatal ==
    /\ pc = "write"
    /\ \/ /\ hr1' = cv_scaled
          /\ obs' = [obs EXCEPT !.writes = @ + 1, !.wrote = Some(cv_scaled),
                                !.unpublished = TRUE]
          /\ pc' = "pub_pv"
          /\ UNCHANGED pending
       \/ /\ hr1' = hr1
          /\ obs' = [obs EXCEPT !.writes = @ + 1, !.wrote = Some(cv_scaled),
                                !.writeFailed = TRUE]
          /\ Escapes
    /\ UNCHANGED << opcua, client, tags, pid, locals, cycle, limit, ut >>

\* client.write_register(address=1, value=cv_scaled); an exception is caught
Write ==
    /\ pc = "write"
    /\ \/ /\ hr1' = cv_scaled
          /\ obs' = [obs EXCEPT !.writes = @ + 1, !.wrote = Some(cv_scaled),
                                !.unpublished = TRUE]
       \/ /\ hr1' = hr1
          /\ obs' = [obs EXCEPT !.writes = @ + 1, !.wrote = Some(cv_scaled),
                                !.writeFailed = TRUE]
    /\ pc' = "pub_pv"
    /\ UNCHANGED << opcua, client, tags, pid, locals, cycle, pending, limit, ut >>

\* if pv is not None: tags["PV"].set_value(pv)
PubPV ==
    /\ pc = "pub_pv"
    /\ \/ /\ pv # None
          /\ tags' = [tags EXCEPT !.PV = pv[1]]
          /\ obs' = [obs EXCEPT !.pubPV = TRUE]
          /\ pc' = "pub_cv"
          /\ UNCHANGED pending
       \/ /\ pv # None
          /\ Escapes
          /\ UNCHANGED << tags, obs >>
       \/ /\ pv = None
          /\ pc' = "pub_cv"
          /\ UNCHANGED << tags, obs, pending >>
    /\ UNCHANGED << opcua, client, hr1, pid, locals, cycle, limit, ut >>

\* a publish of CV that reads the register back instead of using cv_scaled
PubCV_FromRegister ==
    /\ pc = "pub_cv"
    /\ \/ /\ tags' = [tags EXCEPT !.CV = I(hr1)]
          /\ obs' = [obs EXCEPT !.pubCV = TRUE, !.unpublished = FALSE]
          /\ pc' = "pub_valid"
          /\ UNCHANGED pending
       \/ /\ Escapes
          /\ UNCHANGED << tags, obs >>
    /\ UNCHANGED << opcua, client, hr1, pid, locals, cycle, limit, ut >>

\* tags["CV"].set_value(float(cv_scaled))
PubCV ==
    /\ pc = "pub_cv"
    /\ \/ /\ tags' = [tags EXCEPT !.CV = I(cv_scaled)]
          /\ obs' = [obs EXCEPT !.pubCV = TRUE, !.unpublished = FALSE]
          /\ pc' = "pub_valid"
          /\ UNCHANGED pending
       \/ /\ Escapes
          /\ UNCHANGED << tags, obs >>
    /\ UNCHANGED << opcua, client, hr1, pid, locals, cycle, limit, ut >>

\* tags["VALID"].set_value(bool(valid))
PubVALID ==
    /\ pc = "pub_valid"
    /\ \/ /\ tags' = [tags EXCEPT !.VALID = valid]
          /\ obs' = [obs EXCEPT !.pubVALID = TRUE]
          /\ pc' = "sleep"
          /\ UNCHANGED pending
       \/ /\ Escapes
          /\ UNCHANGED << tags, obs >>
    /\ UNCHANGED << opcua, client, hr1, pid, locals, cycle, limit, ut >>

\* print(heartbeat); time.sleep(0.5); back to the head of the while loop
Sleep ==
    /\ pc = "sleep"
    /\ pc' = "top"
    /\ UNCHANGED << opcua, client, tags, hr1, pid, locals, cycle, pending,
                    obs, limit, ut >>

\* ----------------------------------------------------- main.py: shutdown
\* Ctrl+C: KeyboardInterrupt is raised in the main thread at whatever
\* statement of the try block is executing; except KeyboardInterrupt logs
\* and falls through to the finally block
Interrupt ==
    /\ pc \in LoopPcs
    /\ ~obs.cancelled
    /\ obs' = [obs EXCEPT !.cancelled = TRUE, !.cancelPc = pc]
    /\ pc' = "close"
    /\ UNCHANGED << opcua, client, tags, hr1, pid, locals, cycle, pending, limit, ut >>

\* a close whose exception is not swallowed: the stop is skipped
Close_FailRaises ==
    /\ pc = "close"
    /\ obs' = [obs EXCEPT !.closeAttempted = TRUE]
    /\ \/ /\ client' = "closed"
          /\ pc' = "stop"
       \/ /\ UNCHANGED client
          /\ pc' = "raised"
    /\ UNCHANGED << opcua, tags, hr1, pid, locals, cycle, pending, limit, ut >>

\* finally: try: client.close() except Exception: pass
Close ==
    /\ pc = "close"
    /\ obs' = [obs EXCEPT !.closeAttempted = TRUE]
    /\ \/ client' = "closed"
       \/ UNCHANGED client
    /\ pc' = "stop"
    /\ UNCHANGED << opcua, tags, hr1, pid, locals, cycle, pending, limit, ut >>

\* try: opcua_server.stop() except Exception: pass; then main returns, or
\* the exception that left the try block is re-raised
Stop ==
    /\ pc = "stop"
    /\ obs' = [obs EXCEPT !.stopAttempted = TRUE]
    /\ \/ opcua' = "stopped"
       \/ UNCHANGED opcua
    /\ pc' = IF pending = "exception" THEN "raised" ELSE "returned"
    /\ UNCHANGED << client, tags, hr1, pid, locals, cycle, pending, limit, ut >>

\* an OPC UA client (the operator) writes the writable Setpoint tag, at any
\* moment of the loop (no statement reads the tag once the loop has ended)
OperatorWriteSP ==
    /\ opcua = "running"
    /\ pc \in LoopPcs
    /\ \E v \in SPValues :
          /\ v # tags.SP
          /\ tags' = [tags EXCEPT !.SP = v]
    /\ UNCHANGED << pc, opcua, client, hr1, pid, locals, cycle, pending,
                    obs, limit, ut >>

Next ==
    \/ StartOpcua
    \/ ConnectOk
    \/ ConnectFail
    \/ InitPid
    \/ Top
    \/ ReadSP
    \/ ReadPV
    \/ Validate
    \/ Compute
    \/ FailSafe
    \/ Write
    \/ PubPV
    \/ PubCV
    \/ PubVALID
    \/ Sleep
    \/ Interrupt
    \/ Close
    \/ Stop
    \/ OperatorWriteSP

Spec == Init /\ [][Next]_vars

\* The runs of at most LiveCycles cycles, with the fairness of sequential
\* execution: once main() is in the finally block it executes client.close()
\* and then opcua_server.stop(); nothing is assumed of the loop, the ports
\* or the operator.
LiveSpec == LiveInit /\ [][Next]_vars /\ WF_vars(Close) /\ WF_vars(Stop)

\* ------------------------------------- component-level specification
\* A controller in any state, or a validator call with any arguments, is
\* drawn at Init; the actions call compute (up to MaxCalls times on the same
\* arguments) and check_sensor_range.
UtGains == { << I(1), Rat(1, 10), Rat(1, 20) >>, << I(1), Rat(1, 5), Rat(1, 20) >>,
             << I(1), Zero, Zero >> }

UtSetpoints == { I(50), I(0) }

UtIntegrals == { Zero, Rat(5, 2), I(0 - 3) }

UtErrors == { Zero, I(5), I(0 - 2) }

UtMeasured == { I(45), I(50), I(60) }

UtDts == { I(1), Rat(1, 2), Rat(1, 1000), Zero, I(0 - 1) }

UtValues == { None } \cup { Some(I(v)) : v \in {0 - 1, 0, 1, 2, 3, 4, 99, 100, 101, 199, 200, 201} }
                \cup { Some(Rat(0 - 1, 2)), Some(Rat(5, 2)), Some(Rat(401, 2)) }

UtLows == { I(0), I(1) }

UtHighs == { I(3), I(100), I(200) }

UtComputeCases ==
    { [op |-> "compute",
       pids |-> << [PIDController(g[1], g[2], g[3], sp)
                      EXCEPT !.integral = i, !.last_error = e] >>,
       mv |-> mv, dt |-> d, value |-> None, low |-> Zero, high |-> Zero,
       outs |-> << >>] :
        g \in UtGains, sp \in UtSetpoints, i \in UtIntegrals, e \in UtErrors,
        mv \in UtMeasured, d \in UtDts }

UtCheckCases ==
    { [op |-> "check", pids |-> << >>, mv |-> Zero, dt |-> Zero, value |-> v,
       low |-> lo, high |-> hi, outs |-> << >>] :
        v \in UtValues, lo \in UtLows, hi \in UtHighs }

UnitInit == MainInit /\ limit = 0 /\ ut \in UtComputeCases \cup UtCheckCases

mainVars == << pc, opcua, client, tags, hr1, pid, locals, cycle, pending, obs,
              limit >>

\* output = pid.compute(measured_value, dt)
UtCompute ==
    /\ ut.op = "compute"
    /\ Len(ut.outs) < MaxCalls
    /\ LET r == compute(ut.pids[Len(ut.pids)], ut.mv, ut.dt)
       IN  ut' = [ut EXCEPT !.pids = Append(@, r.self),
                            !.outs = Append(@, r.output)]
    /\ UNCHANGED mainVars

\* result = check_sensor_range(value, low, high)
UtCheck ==
    /\ ut.op = "check"
    /\ ut.outs = << >>
    /\ ut' = [ut EXCEPT !.outs = << check_sensor_range(ut.value, ut.low, ut.high) >>]
    /\ UNCHANGED mainVars

UnitNext ==
    \/ UtCompute
    \/ UtCheck

UnitSpec == UnitInit /\ [][UnitNext]_vars

\* ================================================================ claims
\* PV is present and within [LOW, HIGH]
PvInRange ==
    /\ pv # None
    /\ LOW * pv[1][2] <= pv[1][1]
    /\ pv[1][1] <= HIGH * pv[1][2]

\* integral accumulator and last error of two controllers agree
SameMemory(p, q) == p.integral = q.integral /\ p.last_error = q.last_error

\* C1: the value passed to the register write of CV is an integer in
\* [-1000, 1000], and it is 0 whenever the PV of the cycle is absent or
\* outside [0, 200] (VALID false).
C1_WrittenCvInRange ==
    obs.wrote # None =>
        /\ obs.wrote[1] \in (0 - CV_MAX)..CV_MAX
        /\ (~valid \/ ~PvInRange) => obs.wrote[1] = 0

\* C1 witness: an out-of-range reading is answered with a write of 0 in a
\* cycle that follows one whose output was clamped to 1000.
C1_Witness ==
    /\ obs.wrote = Some(0)
    /\ pv = Some(I(201))
    /\ tags.CV = I(CV_MAX)
    /\ cycle >= 2

\* C2: a cycle in which VALID is false never calls compute and leaves the
\* integral and last_error as they were when the cycle began; so when the
\* previous cycle skipped compute, this cycle begins with the memory the
\* previous cycle began with, and its compute accumulates onto that memory.
C2_InvalidCycleKeepsPidState ==
    /\ (obs.validated /\ ~valid) => ~obs.computed
    /\ ~obs.computed => SameMemory(pid, obs.pidBefore)
    /\ obs.skipBase # None =>
          /\ SameMemory(obs.pidBefore, obs.skipBase[1])
          /\ obs.computed =>
                /\ pid.last_error = RatSub(sp_val, pv[1])
                /\ pid.integral = RatAdd(obs.skipBase[1].integral,
                                         RatMul(RatSub(sp_val, pv[1]), dt))

\* C2 witness: readings [valid, valid, absent, valid]; cycle 4 has computed
\* from the memory left by cycle 2.
C2_Witness ==
    /\ cycle = 4
    /\ obs.nValid = 3
    /\ obs.prevReadFailed
    /\ obs.computed
    /\ obs.skipBase # None
    /\ obs.skipBase[1].integral # Zero

\* the positions of the finally block and after it
ShutdownPcs == {"close", "stop", "returned", "raised"}

\* a Telemetry Port call of the loop has raised
TelemetryFailed == pending = "exception"

C3_State ==
    /\ obs.reads <= 1
    /\ obs.readFailed =>
          /\ pv = None
          /\ ~obs.computed
          /\ SameMemory(pid, obs.pidBefore)
          /\ obs.validated => ~valid
          /\ obs.wrote # None => obs.wrote = Some(0)
          /\ (~obs.cancelled /\ ~TelemetryFailed) => pc \in LoopPcs
          /\ pc = "sleep" =>
                /\ obs.writes = 1
                /\ obs.pubCV /\ obs.pubVALID /\ ~obs.pubPV
                /\ tags.CV = Zero /\ tags.VALID = FALSE
    /\ (obs.reads = 1 /\ ~obs.readFailed) =>
          /\ pv = Some(I(obs.delivered[1]))
          /\ obs.computed =>
                pid.last_error = RatSub(sp_val, I(obs.delivered[1]))
          /\ (pc = "sleep" /\ PvInRange) =>
                /\ obs.computed
                /\ obs.pubPV /\ tags.PV = I(obs.delivered[1])
                /\ tags.VALID = TRUE

C3_Step ==
    (pc = "read_pv" /\ obs'.readFailed) =>
        /\ pc' = "validate"
        /\ pv' = None
        /\ pid' = pid

\* C3: a failed read of PV makes PV absent for the cycle: no earlier value
\* reaches the validator or compute, the read is made once, the loop goes
\* on to validate, write 0 and publish CV and VALID; a cycle whose read
\* succeeds uses the register just delivered, also right after a failure.
C3_ReadFailureIsAbsentPv == [](C3_State) /\ [][C3_Step]_vars

\* C3 witness: the cycle after a failed read has read 45, computed and
\* published it.
C3_Witness ==
    /\ obs.prevReadFailed
    /\ pc = "sleep"
    /\ obs.computed
    /\ obs.delivered = Some(45)
    /\ tags.PV = I(45)

\* C4: a failed Telemetry Port call (Setpoint read, PV/CV/VALID publish)
\* leaves the loop running.
C4_TelemetryFailureNonFatal == TelemetryFailed => pc \in LoopPcs

\* C5: a cancellation takes effect only at a cycle boundary: the cycle it
\* arrives in is completed first, so shutdown never starts with a CV written
\* to the register in the last cycle but not published to the CV tag.
C5_CancelOnlyAtCycleBoundary ==
    (obs.cancelled /\ pc \in ShutdownPcs) => ~obs.unpublished

C6_State ==
    /\ obs.writes <= 1
    /\ (obs.writeFailed /\ pc = "sleep") =>
          /\ obs.pubCV /\ tags.CV = I(cv_scaled)
          /\ obs.pubVALID /\ tags.VALID = valid

C6_Step ==
    /\ (pc = "write" /\ obs'.writeFailed) =>
          /\ hr1' = hr1
          /\ obs'.writes = 1
          /\ pc' = "pub_pv"
    /\ (pc = "sleep" /\ obs.writeFailed /\ pc' # "sleep" /\ ~obs'.cancelled) =>
          pc' = "top"

\* C6: a failed write of CV is attempted once, leaves the CV register with
\* the last value written successfully, and the cycle goes on to publish
\* and to the next cycle.
C6_WriteFailureKeepsRegister == [](C6_State) /\ [][C6_Step]_vars

\* C6 witness: cycle 3 has begun after the write of cycle 2 failed; the
\* register still holds the value written in cycle 1, the CV tag the value
\* of cycle 2.
C6_Witness ==
    /\ cycle = 3
    /\ pc = "read_sp"
    /\ hr1 # 25
    /\ hr1 # cv_scaled
    /\ tags.CV = I(cv_scaled)

\* C8: when the connection is not established the run ends with no cycle,
\* no register access, no publish and no compute, and the telemetry server
\* started before the attempt has been stopped when main returns.
C8_ConnectFailureStopsTelemetry ==
    (client = "new") =>
        /\ cycle = 0
        /\ obs.reads = 0 /\ obs.writes = 0 /\ hr1 = 25
        /\ tags = [PV |-> I(25), CV |-> Zero, SP |-> I(50), VALID |-> TRUE]
        /\ pid = FreshPid
        /\ pc \notin LoopPcs
        /\ (pc \in {"returned", "raised"} /\ opcua # "down") => obs.stopAttempted
        /\ pc = "returned" => opcua = "stopped"

\* C8 witness: main has returned after a failed connect, the server stopped.
C8_Witness ==
    /\ pc = "returned"
    /\ client = "new"
    /\ opcua = "stopped"
    /\ obs.stopAttempted

\* main has returned after attempting both the close and the stop
ShutdownComplete ==
    /\ pc = "returned"
    /\ obs.closeAttempted
    /\ obs.stopAttempted

C7_Step ==
    obs.cancelled =>
        /\ cycle' = cycle
        /\ obs'.reads = obs.reads /\ obs'.writes = obs.writes
        /\ hr1' = hr1 /\ pid' = pid
        /\ tags'.PV = tags.PV /\ tags'.CV = tags.CV /\ tags'.VALID = tags.VALID
        /\ pc' \in ShutdownPcs

\* C7: once the cancellation is received no further cycle step runs (no
\* read, write, publish or compute), shutdown completes, and it completes
\* with main returning after both client.close() and opcua_server.stop()
\* were called, whether or not either of them failed.
C7_CancelShutsDown ==
    /\ [][C7_Step]_vars
    /\ []((obs.cancelled /\ pc \in {"returned", "raised"}) => ShutdownComplete)
    /\ (obs.cancelled ~> ShutdownComplete)

\* C7 witness: main has returned after a cancellation although
\* client.close() failed (the client is still connected); the stop was made.
C7_Witness ==
    /\ obs.cancelled
    /\ ShutdownComplete
    /\ client = "connected"
    /\ opcua = "stopped"

\* the k-th call of compute in the component-level specification did what
\* the control law says, from the controller p before it to q after it
C9_Call(k) ==
    LET p == ut.pids[k]
        q == ut.pids[k + 1]
        error == RatSub(p.setpoint, ut.mv)
        derivative == IF ut.dt[1] > 0
                      THEN RatDiv(RatSub(error, p.last_error), ut.dt)
                      ELSE Zero
    IN  /\ q.last_error = error
        /\ q.integral = RatAdd(p.integral, RatMul(error, ut.dt))
        /\ ut.outs[k] = RatAdd(RatMul(p.kp, error),
                               RatAdd(RatMul(p.ki, q.integral),
                                      RatMul(p.kd, derivative)))
        /\ q.setpoint = p.setpoint
        /\ q.kp = p.kp /\ q.ki = p.ki /\ q.kd = p.kd

\* the controller has no memory yet
IsFresh(p) == p.integral = Zero /\ p.last_error = Zero

\* C9: compute sets error = SP - measured_value, adds error*dt to the
\* integral before using it, takes (error - E_prev)/dt as derivative when
\* dt > 0 and 0 otherwise, returns Kp*error + Ki*I_new + Kd*derivative and
\* stores E_prev = error.  A fresh controller with SP=50 and gains
\* (1.0, 0.1, 0.05) returns 5.75 for compute(45, 1.0); with Kp=1, Ki=Kd=0 it
\* returns 5 for measured_value = SP - 5; the first output of a fresh
\* controller with positive gains is positive when measured_value < SP and
\* dt > 0.
C9_ComputeControlLaw ==
    ut.op = "compute" =>
        /\ Len(ut.pids) = Len(ut.outs) + 1
        /\ \A k \in 1..Len(ut.outs) : C9_Call(k)
        /\ (Len(ut.outs) >= 1 /\ IsFresh(ut.pids[1])) =>
              LET p == ut.pids[1]
              IN  /\ (/\ p.setpoint = I(50) /\ ut.mv = I(45) /\ ut.dt = I(1)
                      /\ p.kp = I(1) /\ p.ki = Rat(1, 10) /\ p.kd = Rat(1, 20))
                        => ut.outs[1] = << 23, 4 >>
                  /\ (/\ p.kp = I(1) /\ p.ki = Zero /\ p.kd = Zero
                      /\ p.setpoint[1] - ut.mv[1] = 5)
                        => ut.outs[1] = << 5, 1 >>
                  /\ (/\ p.kp[1] > 0 /\ p.ki[1] > 0 /\ p.kd[1] > 0
                      /\ ut.mv[1] * p.setpoint[2] < p.setpoint[1] * ut.mv[2]
                      /\ ut.dt[1] > 0)
                        => ut.outs[1][1] > 0

\* C9 witness: the 5.75 case of the test, followed by a second call.
C9_Witness ==
    /\ ut.op = "compute"
    /\ Len(ut.outs) = 2
    /\ ut.pids[1] = PIDController(I(1), Rat(1, 10), Rat(1, 20), I(50))
    /\ ut.mv = I(45)
    /\ ut.dt = I(1)
    /\ ut.outs[1] = << 23, 4 >>
    /\ ut.pids[2].integral = I(5)

\* C10: check_sensor_range is false for an absent value and for a value
\* below low or above high, and true for low <= value <= high, both bounds
\* included; the call leaves its arguments as they were.
C10_ValidatorRange ==
    (ut.op = "check" /\ ut.outs # << >>) =>
        /\ Len(ut.outs) = 1
        /\ ut.value = None => ut.outs[1] = FALSE
        /\ ut.value # None =>
              LET v == ut.value[1]
                  geLow == ut.low[1] * v[2] <= v[1] * ut.low[2]
                  leHigh == v[1] * ut.high[2] <= ut.high[1] * v[2]
              IN  /\ ut.outs[1] = (geLow /\ leHigh)
                  /\ (v = ut.low \/ v = ut.high) => ut.outs[1] = TRUE
        /\ ut \in UtCheckCases \/ [ut EXCEPT !.outs = << >>] \in UtCheckCases

\* C10 witness: a value equal to the upper bound 200 is valid.
C10_Witness ==
    /\ ut.op = "check"
    /\ ut.value = Some(I(200))
    /\ ut.low = I(0)
    /\ ut.high = I(200)
    /\ ut.outs = << TRUE >>

\* the step that assigns the setpoint keeps the memory; the memory changes
\* only in the compute of a valid cycle, by accumulation
C11_Step ==
    /\ (pc = "read_sp" /\ pc' = "read_pv") =>
          /\ SameMemory(pid', pid)
          /\ pid'.setpoint = tags.SP
    /\ ~SameMemory(pid', pid) =>
          /\ pc = "control" /\ valid /\ pc' = "write"
          /\ pid'.last_error = RatSub(pid.setpoint, pv[1])
          /\ pid'.integral = RatAdd(pid.integral, RatMul(pid'.last_error, dt))

\* C11: assigning a new setpoint leaves integral and last_error unchanged
\* and the next compute forms its error from the new setpoint; no step of
\* the loop resets integral or last_error (they change only by the
\* accumulation of compute).
C11_SetpointKeepsMemory ==
    /\ [](obs.computed =>
            /\ pid.setpoint = sp_val
            /\ pid.last_error = RatSub(sp_val, pv[1]))
    /\ [][C11_Step]_vars

\* C11 witness: the setpoint went from 50 to 100 on a controller with a
\* non-zero integral; compute used 100 (error 55 at PV 45) and accumulated
\* onto the integral it had.
C11_Witness ==
    /\ obs.computed
    /\ obs.pidBefore.setpoint = I(50)
    /\ obs.pidBefore.integral # Zero
    /\ pid.setpoint = I(100)
    /\ pid.last_error = I(55)
    /\ pid.integral = RatAdd(obs.pidBefore.integral, RatMul(I(55), dt))

\* the Setpoint tag is read once per cycle, before the PV read; compute
\* uses the value read; an operator write touches only the tag
C12_Step ==
    /\ (pc = "read_sp" /\ pc' = "read_pv") =>
          /\ obs.reads = 0
          /\ sp_val' = tags.SP
          /\ pid'.setpoint = tags.SP
    /\ (sp_val' # sp_val \/ pid'.setpoint # pid.setpoint) => pc = "read_sp"
    /\ (pc = "control" /\ pc' = "write" /\ valid) =>
          /\ pid.setpoint = sp_val
          /\ pid'.last_error = RatSub(sp_val, pv[1])
    /\ tags'.SP # tags.SP =>
          /\ pc' = pc
          /\ pid' = pid
          /\ sp_val' = sp_val

\* C12: with an operator writing the Setpoint tag at any moment, the
\* setpoint compute uses in a cycle is the value the tag held when that
\* cycle read it, before the PV read of the same cycle; the tag holds the
\* last value written, so a cycle that starts after a write uses it, and a
\* write after the cycle's read waits for the next cycle.
C12_SetpointReadPerCycle ==
    /\ [](pc \in (LoopPcs \ {"top", "read_sp"}) => pid.setpoint = sp_val)
    /\ [][C12_Step]_vars

\* C12 witness: the previous cycle ran with 50; this cycle read 100 and
\* computed with it (error 55 at PV 45) although the operator has written
\* 50 again since the read.
C12_Witness ==
    /\ obs.computed
    /\ obs.pidBefore.setpoint = I(50)
    /\ sp_val = I(100)
    /\ tags.SP = I(50)
    /\ pv = Some(I(45))
    /\ pid.last_error = I(55)

\* w is the integer nearest to the rational r (ties go to the even one)
C13_Nearest(r, w) ==
    /\ 2 * Abs(r[1] - w * r[2]) <= r[2]
    /\ 2 * Abs(r[1] - w * r[2]) = r[2] => w % 2 = 0

\* C13: in every valid cycle the value written to the CV register is the
\* PID output of that cycle clamped to [-1000, 1000] and then rounded to
\* the nearest integer: an output above 1000 is written as 1000, one below
\* -1000 as -1000.
C13_WrittenIsClampedOutput ==
    /\ (valid /\ obs.wrote # None) => obs.computed
    /\ obs.computed =>
          /\ obs.cv # None
          /\ obs.cv[1] = RatAdd(RatAdd(RatMul(pid.kp, pid.last_error),
                                       RatMul(pid.ki, pid.integral)),
                                RatMul(pid.kd,
                                       RatDiv(RatSub(pid.last_error,
                                                     obs.pidBefore.last_error),
                                              dt)))
    /\ (obs.computed /\ obs.wrote # None) =>
          LET raw == obs.cv[1]
              w == obs.wrote[1]
          IN  /\ raw[1] > CV_MAX * raw[2] => w = CV_MAX
              /\ raw[1] < (0 - CV_MAX) * raw[2] => w = 0 - CV_MAX
              /\ (/\ raw[1] <= CV_MAX * raw[2]
                  /\ raw[1] >= (0 - CV_MAX) * raw[2]) => C13_Nearest(raw, w)

\* C13 witness: an output below -1000 was written as -1000 and the register
\* holds it.
C13_Witness ==
    /\ obs.computed
    /\ obs.cv[1][1] < (0 - CV_MAX) * obs.cv[1][2]
    /\ obs.wrote = Some(0 - CV_MAX)
    /\ hr1 = 0 - CV_MAX

\* what call k + 1 returns beyond call k on the same arguments:
\* Ki*error*dt - Kd*derivative, with the derivative of call k
C14_Drift(k) ==
    LET p == ut.pids[k]
        error == RatSub(p.setpoint, ut.mv)
        derivative == IF ut.dt[1] > 0
                      THEN RatDiv(RatSub(error, p.last_error), ut.dt)
                      ELSE Zero
    IN  RatSub(RatMul(p.ki, RatMul(error, ut.dt)), RatMul(p.kd, derivative))

\* C14 as stated: two calls of compute in a row on the same controller with
\* identical (measured_value, dt, SP) never return the same value.
C14_SecondCallDiffers ==
    (ut.op = "compute" /\ Len(ut.outs) >= 2) => ut.outs[2] # ut.outs[1]

\* C14, amended: the second of two calls in a row with identical
\* (measured_value, dt, SP) returns the first value plus
\* Ki*error*dt - Kd*derivative (the derivative of the first call, 0 when
\* dt <= 0), so it differs from the first exactly when that is not zero.
C14_SecondCallDrifts ==
    ut.op = "compute" =>
        \A k \in 1..(Len(ut.outs) - 1) :
            /\ ut.outs[k + 1] = RatAdd(ut.outs[k], C14_Drift(k))
            /\ (ut.outs[k + 1] = ut.outs[k]) <=> (C14_Drift(k) = Zero)

\* C14 witness: the fresh controller with SP=50 and gains (1.0, 0.1, 0.05)
\* returns 5.75 and then 6 for compute(45, 1.0) called twice.
C14_Witness ==
    /\ ut.op = "compute"
    /\ IsFresh(ut.pids[1])
    /\ ut.mv = I(45) /\ ut.dt = I(1)
    /\ Len(ut.outs) >= 2
    /\ ut.outs[1] = Rat(23, 4)
    /\ ut.outs[2] = I(6)

\* what an observer of the telemetry reads: the tags the loop publishes
TelemetryView == << tags.PV, tags.CV, tags.VALID >>

\* the views a cycle with an obtained, out-of-range reading leaves: that
\* reading, a control output of 0 and VALID false
OutOfRangeViews ==
    { << I(r), Zero, FALSE >> : r \in { x \in RegValues : x < LOW \/ x > HIGH } }

\* C15: after a cycle, the telemetry tags tell an invalid measurement from
\* no data: the tags a cycle without a reading leaves are never tags that a
\* cycle with an obtained, out-of-range reading leaves.
C15_InvalidDiffersFromNoData ==
    pc = "sleep" =>
        /\ (obs.delivered # None /\ ~PvInRange) =>
              TelemetryView \in OutOfRangeViews
        /\ obs.readFailed => TelemetryView \notin OutOfRangeViews

\* a step changes a published tag only at its own publish statement, and
\* the PV tag only when the cycle has a PV
C16_Step ==
    /\ tags'.PV # tags.PV =>
          /\ pc = "pub_pv" /\ pv # None
          /\ tags'.PV = pv[1]
    /\ tags'.CV # tags.CV => pc = "pub_cv"
    /\ tags'.VALID # tags.VALID => pc = "pub_valid"
    /\ (pc = "pub_pv" /\ pc' = "pub_cv" /\ pv = None) => tags' = tags

\* C16: at the end of every completed cycle the SensorValid tag is the
\* validity computed in that cycle (PV present and within [0, 200]), the
\* ControlOutput tag is the value passed to the register write of that
\* cycle whether or not the write succeeded, and the ProcessTemperature tag
\* was written only when PV is present, keeping its value otherwise.
C16_TagsAtCycleEnd ==
    /\ [](pc = "sleep" =>
            /\ tags.VALID = valid
            /\ tags.VALID = PvInRange
            /\ obs.wrote # None
            /\ tags.CV = I(obs.wrote[1])
            /\ obs.pubPV = (pv # None)
            /\ pv # None => tags.PV = pv[1])
    /\ [][C16_Step]_vars

\* C16 witness: a cycle without a reading ends with VALID false, with the
\* CV tag at the 0 whose write failed (the register keeps an earlier
\* output) and with the PV tag still at 45, published by an earlier cycle.
C16_Witness ==
    /\ pc = "sleep"
    /\ pv = None
    /\ obs.writeFailed
    /\ hr1 # 0 /\ hr1 # 25
    /\ tags = [PV |-> I(45), CV |-> Zero, SP |-> tags.SP, VALID |-> FALSE]

\* C17: the dt of a cycle, which compute receives, is at least 0.001: it is
\* the time elapsed between the last two clock readings when that is at
\* least 0.001, and 0.001 when the clock has not advanced or has gone
\* backwards; so the derivative of compute never divides by zero.
C17_DtAtLeastFloor ==
    /\ dt # None =>
          /\ dt[2] > 0
          /\ 1000 * dt[1] >= dt[2]
    /\ (cycle >= 1) =>
          /\ dt # None /\ obs.clock # None /\ obs.prevClock # None
          /\ LET elapsed == RatSub(obs.clock[1], obs.prevClock[1])
             IN  dt = IF 1000 * elapsed[1] >= elapsed[2] THEN elapsed
                      ELSE Rat(1, 1000)
    /\ pc = "control" => dt[1] # 0

\* C17 witness: the clock went backwards (0.5 then 0) and compute ran with
\* dt = 0.001.
C17_Witness ==
    /\ obs.computed
    /\ obs.prevClock = Some(Rat(TickMs, 1000))
    /\ obs.clock = Some(Zero)
    /\ dt = Rat(1, 1000)

\* the start of a cycle measures dt from the clock reading of the previous
\* cycle's start (of the construction, for the first cycle) and advances
\* last_time, whether or not the previous cycle called compute
C18_Step ==
    (pc = "top" /\ pc' = "read_sp") =>
        /\ obs.clock = Some(last_time)
        /\ obs'.clock = Some(last_time')
        /\ dt' = PyMax(Rat(1, 1000), RatSub(last_time', last_time))
        /\ cycle' = cycle + 1

\* C18: last_time is advanced at the start of every cycle, invalid ones
\* included; so the dt given to compute in the first valid cycle after
\* invalid ones is the time since the start of the immediately preceding
\* cycle (at least 0.001), and the integral grows by error*dt of that dt
\* only: the time spent in the invalid cycles is not added to it.
C18_DtSpansOneCycle ==
    /\ [](last_time # None => obs.clock = Some(last_time))
    /\ []((obs.skipBase # None /\ obs.computed) =>
            /\ dt = PyMax(Rat(1, 1000),
                          RatSub(obs.clock[1], obs.prevClock[1]))
            /\ pid.integral = RatAdd(obs.skipBase[1].integral,
                                     RatMul(pid.last_error, dt)))
    /\ [][C18_Step]_vars

\* C18 witness: a valid cycle, then a cycle that skipped compute, then a
\* valid cycle that began 0.5 s after the skipped one began: dt is 0.5 and
\* the integral grew by error * 0.5 from what it was before the skip.
C18_Witness ==
    /\ obs.computed
    /\ obs.skipBase # None
    /\ obs.nValid >= 2
    /\ obs.skipBase[1].integral # Zero
    /\ obs.prevClock = Some(Zero)
    /\ obs.clock = Some(Rat(TickMs, 1000))
    /\ dt = Rat(1, 2)
    /\ pid.integral = RatAdd(obs.skipBase[1].integral,
                             RatMul(pid.last_error, Rat(1, 2)))

\* the loop is left only into the finally block, by Ctrl+C or by an
\* exception, with no cleanup call made yet; from there main only goes
\* through close and stop to its end and touches nothing of the cycle
C19_Step ==
    /\ (pc \in LoopPcs /\ pc' \notin LoopPcs) =>
          /\ pc' = "close"
          /\ ~obs.closeAttempted /\ ~obs.stopAttempted
          /\ \/ obs'.cancelled /\ ~obs.cancelled /\ pending' = "none"
             \/ pending' = "exception" /\ pending = "none"
    /\ pc \in ShutdownPcs =>
          /\ pc' \in ShutdownPcs
          /\ << cycle, hr1, tags, pid, locals >>' = << cycle, hr1, tags, pid, locals >>
          /\ obs'.reads = obs.reads /\ obs'.writes = obs.writes
    /\ pc = "close" => pc' \in {"close", "stop"}
    /\ pc = "stop" => pc' \in {"stop", "returned", "raised"}

\* C19: once the client has connected, every way of leaving the control
\* loop (Ctrl+C, or an exception that escapes a cycle) enters the cleanup:
\* client.close() and opcua_server.stop() have both been attempted when
\* main ends, by return after Ctrl+C and by the exception otherwise, and no
\* cycle step runs once the cleanup has started.
C19_LeavingLoopRunsCleanup ==
    /\ []((client # "new" /\ pc \in {"returned", "raised"}) =>
            /\ obs.closeAttempted /\ obs.stopAttempted
            /\ pc = "raised" <=> pending = "exception"
            /\ pc = "returned" <=> obs.cancelled)
    /\ [](pc = "stop" => obs.closeAttempted)
    /\ [][C19_Step]_vars

\* C19 witness: an exception escaped the second cycle or a later one; main
\* ended by that exception after close and stop were both attempted, and
\* both had failed.
C19_Witness ==
    /\ pc = "raised"
    /\ pending = "exception"
    /\ ~obs.cancelled
    /\ cycle >= 2
    /\ obs.closeAttempted /\ obs.stopAttempted
    /\ client = "connected"
    /\ opcua = "running"

====
